---- MODULE Spec2Model ----
(***************************************************************************)
(* Model of osg-ca-certs-updater: the throttling / escalation policy of    *)
(* main() and safe_main(), the persisted last-run timestamp, and the       *)
(* external collaborators (repoquery, rpm -q, yum update) as               *)
(* nondeterministic environment results.                                   *)
(*                                                                         *)
(* One process invocation is one run: Start .. SafeMainReturn/Except.      *)
(* The timestamp file and the wall clock persist across runs.              *)
(*                                                                         *)
(* Time.  Python floats of seconds are represented as integers counting    *)
(* ticks of 1/TicksPerSecond second, so that "%d" % timestamp (which drops *)
(* the fraction) is not the identity.  The wall clock is non-decreasing    *)
(* and takes values on a bounded grid; its last value stands for "that     *)
(* instant or later".  Ages are whole hours, timestamps are assumed to be  *)
(* in the range time.localtime() accepts.                                  *)
(***************************************************************************)
EXTENDS Integers, Sequences, FiniteSets, TLC

VARIABLES
    clock,              \* time.time(), in ticks
    file,               \* content of LASTRUN_TIMESTAMP_PATH
    pc,                 \* position of the running process in main()/safe_main()
    options,            \* result of get_options()
    lastrun_timestamp,  \* value returned by get_lastrun_timestamp()
    next_update_time,   \* main(): first element of get_times()
    expire_time,        \* main(): second element of get_times()
    packages,           \* main(): the list 'packages' (alias of PACKAGE_LIST)
    idx,                \* main(): position of 'for pkg in packages'
    installed_packages, \* main(): list handed to do_yum_update()
    yum_ret,            \* do_yum_update(): yum_proc.returncode of this run
    exc,                \* exception in flight
    state,              \* RunController state of the run (which branch logged)
    exit_code,          \* value returned by safe_main()
    \* what the run has done so far (observation only)
    fileAtStart,        \* file content when the run started
    slept,              \* time.sleep() was called in this run
    verifyCalls,        \* requirements passed to verify_requirement_available()
    verifyFailed,       \* a verify_requirement_available() call raised UpdateError
    noExternal,         \* a repoquery of this run ran and named no external repo
    rpmQueries,         \* packages passed to is_rpm_installed()
    yumCalls,           \* package lists passed to do_yum_update()
    saved               \* return value of save_timestamp() in this run

vars == <<clock, file, pc, options, lastrun_timestamp, next_update_time,
          expire_time, packages, idx, installed_packages, yum_ret, exc, state,
          exit_code, fileAtStart, slept, verifyCalls, verifyFailed, noExternal,
          rpmQueries, yumCalls, saved>>

runVars == <<lastrun_timestamp, next_update_time, expire_time, packages, idx,
             installed_packages, yum_ret, exc, slept, verifyCalls,
             verifyFailed, noExternal, rpmQueries, yumCalls, saved>>

----------------------------------------------------------------------------
\* Bounds of the model

TicksPerSecond == 2
MaxAge == 1

----------------------------------------------------------------------------
\* Program constants

SECONDS_PER_MINUTE == 60
SECONDS_PER_HOUR == 3600
PACKAGE_LIST == <<"osg-ca-certs", "igtf-ca-certs">>
UNCHECKED_PACKAGE_LIST == <<"osg-ca-certs-compat", "igtf-ca-certs-compat">>

EXIT_OK == 0
EXIT_UPDATE_ERROR == 1
EXIT_UNHANDLED == 99

----------------------------------------------------------------------------
\* Python values

None == <<>>
Some(x) == <<x>>
Val(o) == o[1]

\* a float number of seconds, from a whole number of seconds
Seconds(n) == n * TicksPerSecond
\* int(x) / "%d" % x for a non-negative float x: the whole seconds of x
WholeSeconds(t) == t \div TicksPerSecond

HourTicks == SECONDS_PER_HOUR * TicksPerSecond
\* the hours of the timestamps an initial file may hold
FileHours == {0, 1}
\* the clock reaches every next_update_time and expire_time of an initial file
MaxHours == MaxAge + 1
\* the instants of the clock grid within an hour: its start, and one tick later
SubHour == {0, 1}
ClockValues == {h * HourTicks + f : h \in 0..MaxHours, f \in SubHour}
MaxClock == MaxHours * HourTicks + 1

Ages == 0..MaxAge
\* --random-wait: none, or one minute (longer waits wake at the same instants
\* of the clock grid)
Waits == {0, 1}
OptionSpace == [minimum_age_hours : Ages, maximum_age_hours : Ages,
                random_wait_minutes : Waits]

SeqToSet(s) == {s[i] : i \in 1..Len(s)}
TrackedPackages == SeqToSet(PACKAGE_LIST) \cup SeqToSet(UNCHECKED_PACKAGE_LIST)

----------------------------------------------------------------------------
\* The timestamp file

Missing == [kind |-> "missing", secs |-> 0]
Unreadable == [kind |-> "unreadable", secs |-> 0]
Garbage == [kind |-> "garbage", secs |-> 0]
Empty == [kind |-> "empty", secs |-> 0]
Number(n) == [kind |-> "number", secs |-> n]

InitialFiles == {Missing, Unreadable, Garbage}
                  \cup {Number(h * SECONDS_PER_HOUR) : h \in FileHours}

----------------------------------------------------------------------------
\* Pure functions of the script

\* get_lastrun_timestamp(): None for a missing file, for an IOError on open
\* and for a ValueError of float(); otherwise the float read.
get_lastrun_timestamp(f) ==
    IF f.kind = "missing" THEN None
    ELSE IF f.kind = "unreadable" THEN None
    ELSE IF f.kind = "number" THEN Some(Seconds(f.secs))
    ELSE None

\* 'not lastrun_timestamp': true of None and of 0.0
Falsy(ts) == ts = None \/ Val(ts) = 0

\* get_times() without the collapse of the window when there is no last run
get_times_NoCollapse(ts, minimum_age_hours, maximum_age_hours, t1, t2) ==
    <<(IF Falsy(ts) THEN t1 ELSE Val(ts))
         + minimum_age_hours * SECONDS_PER_HOUR * TicksPerSecond,
      (IF Falsy(ts) THEN t2 ELSE Val(ts))
         + maximum_age_hours * SECONDS_PER_HOUR * TicksPerSecond>>

\* get_times(); t1 and t2 are the two readings of time.time()
get_times(ts, minimum_age_hours, maximum_age_hours, t1, t2) ==
    IF Falsy(ts)
    THEN <<t1, t2>>
    ELSE <<Val(ts) + minimum_age_hours * SECONDS_PER_HOUR * TicksPerSecond,
           Val(ts) + maximum_age_hours * SECONDS_PER_HOUR * TicksPerSecond>>

\* line 347 with the throttle lost
ShouldUpdate_Always(now, next) == TRUE

\* main(), line 347: 'if time.time() >= next_update_time'
ShouldUpdate(now, next) == now >= next

\* line 365 with every failure escalated, with '>' for '>=', with none escalated
Escalate_Always(now, expire) == TRUE
Escalate_Strict(now, expire) == now > expire
Escalate_Never(now, expire) == FALSE

\* main(), line 365: 'if time.time() >= expire_time'
Escalate(now, expire) == now >= expire

\* wait_random_duration(): the values random.randint() may return
WaitChoices(random_wait_minutes) ==
    LET random_wait_seconds == random_wait_minutes * SECONDS_PER_MINUTE
    IN  IF random_wait_seconds < 1 THEN {} ELSE 1..random_wait_seconds

\* time.sleep(s) entered at t returns at the first instant of the clock grid
\* that is s seconds after t or later (the last instant standing for "later")
WakeUp(t, s) ==
    LET due == t + Seconds(s)
        later == {c \in ClockValues : c >= due}
    IN  IF later = {} THEN MaxClock
        ELSE CHOOSE c \in later : \A d \in later : c <= d

\* line 281 without the test for the 'installed' pseudo-repo
ExternalReposProviding_Unfiltered(repoquery_out) ==
    {repo \in repoquery_out : repo # ""}

\* verify_requirement_available(): the lines of repoquery's output that are
\* not blank and not the 'installed' pseudo-repo
ExternalReposProviding(repoquery_out) ==
    {repo \in repoquery_out : repo # "" /\ repo # "installed"}

\* verify_requirement_available(): does it raise UpdateError
VerifyRaises(repoquery_ret, repoquery_out) ==
    \/ repoquery_ret # 0
    \/ ExternalReposProviding(repoquery_out) = {}

\* do_yum_update() without the test of yum's return code
YumRaises_Never(ret) == FALSE

\* do_yum_update(): does it raise UpdateError
YumRaises(ret) == ret # 0

\* main(), line 353: the packages of the list that rpm -q finds
InstalledOf(pkgs, installed) == SelectSeq(pkgs, LAMBDA p : p \in installed)

\* save_timestamp() without its except clause
save_timestamp_Uncaught(f, timestamp, io) ==
    IF io = "ok" THEN <<Number(WholeSeconds(timestamp)), Some(TRUE), "None">>
    ELSE IF io = "open" THEN <<f, None, "IOError">>
    ELSE <<Empty, None, "IOError">>

\* save_timestamp(): <<file afterwards, return value, exception raised>>.
\* io is what the filesystem does: "ok"; "open" (open() raises IOError,
\* nothing is touched); "empty" (open() truncated the file, then the write
\* or the close raised IOError).  The except clause catches the IOError.
save_timestamp(f, timestamp, io) ==
    IF io = "ok" THEN <<Number(WholeSeconds(timestamp)), Some(TRUE), "None">>
    ELSE IF io = "open" THEN <<f, Some(FALSE), "None">>
    ELSE <<Empty, Some(FALSE), "None">>

WriteOutcomes == {"ok", "open", "empty"}

\* safe_main(): the exit code for the exception that left main()
ExitCodeFor(e) == IF e = "UpdateError" THEN EXIT_UPDATE_ERROR ELSE EXIT_UNHANDLED

----------------------------------------------------------------------------
\* Environment results

RepoqueryRets == {0, 1}
\* the lines of repoquery's output: blank, the pseudo-repo, an external repo
RepoqueryOuts == SUBSET {"", "installed", "osg"}
YumRets == {0, 1}
\* Popen() itself may fail (OSError: the tool is not installed)
Launch == {"started", "oserror"}

DefaultOptions == [minimum_age_hours |-> 0, maximum_age_hours |-> 0,
                   random_wait_minutes |-> 0]

InitWith(opts) ==
    /\ clock = 0
    /\ file \in InitialFiles
    /\ pc = "idle"
    /\ options \in opts
    /\ lastrun_timestamp = None
    /\ next_update_time = 0
    /\ expire_time = 0
    /\ packages = PACKAGE_LIST
    /\ idx = 1
    /\ installed_packages = <<>>
    /\ yum_ret = None
    /\ exc = "None"
    /\ state = "Idle"
    /\ exit_code = None
    /\ fileAtStart = file
    /\ slept = FALSE
    /\ verifyCalls = <<>>
    /\ verifyFailed = FALSE
    /\ noExternal = FALSE
    /\ rpmQueries = <<>>
    /\ yumCalls = <<>>
    /\ saved = None

Init == InitWith({DefaultOptions})

----------------------------------------------------------------------------
\* Actions

\* The wall clock moves on between two invocations.
Tick ==
    /\ pc = "idle"
    /\ \E c \in ClockValues : c > clock /\ clock' = c
    /\ UNCHANGED <<file, pc, options, state, exit_code, fileAtStart>>
    /\ UNCHANGED runVars

\* A new process: safe_main() calls main(), which parses the options (opts is
\* what the command line may hold) and sets up the logger.
Start(opts) ==
    /\ pc = "idle"
    /\ \E o \in opts : options' = o
    /\ pc' = "get_lastrun_timestamp"
    /\ state' = "Evaluating"
    /\ UNCHANGED <<clock, file, exit_code, fileAtStart>>
    /\ UNCHANGED runVars

\* line 433: sys.exit(safe_main()); the process and its memory are gone
Exit ==
    /\ pc = "done"
    /\ pc' = "idle"
    /\ state' = "Idle"
    /\ exit_code' = None
    /\ fileAtStart' = file
    /\ lastrun_timestamp' = None
    /\ next_update_time' = 0
    /\ expire_time' = 0
    /\ packages' = PACKAGE_LIST
    /\ idx' = 1
    /\ installed_packages' = <<>>
    /\ yum_ret' = None
    /\ exc' = "None"
    /\ slept' = FALSE
    /\ verifyCalls' = <<>>
    /\ verifyFailed' = FALSE
    /\ noExternal' = FALSE
    /\ rpmQueries' = <<>>
    /\ yumCalls' = <<>>
    /\ saved' = None
    /\ UNCHANGED <<clock, file, options>>

\* main(), line 343: get_lastrun_timestamp(LASTRUN_TIMESTAMP_PATH)
GetLastrunTimestamp ==
    /\ pc = "get_lastrun_timestamp"
    /\ lastrun_timestamp' = get_lastrun_timestamp(file)
    /\ pc' = "get_times"
    /\ UNCHANGED <<clock, file, options, next_update_time, expire_time,
                   packages, idx, installed_packages, yum_ret, exc, state,
                   exit_code, fileAtStart, slept, verifyCalls, verifyFailed,
                   noExternal, rpmQueries, yumCalls, saved>>

\* main(), lines 343-345: get_times(), which reads the clock twice
GetTimes ==
    /\ pc = "get_times"
    /\ \E t1, t2 \in ClockValues :
          /\ clock <= t1 /\ t1 <= t2
          /\ LET w == get_times(lastrun_timestamp, options.minimum_age_hours,
                                options.maximum_age_hours, t1, t2)
             IN  /\ next_update_time' = w[1]
                 /\ expire_time' = w[2]
          /\ clock' = t2
    /\ pc' = "check"
    /\ UNCHANGED <<file, options, lastrun_timestamp, packages, idx,
                   installed_packages, yum_ret, exc, state, exit_code,
                   fileAtStart, slept, verifyCalls, verifyFailed, noExternal,
                   rpmQueries, yumCalls, saved>>

\* main(), line 347 and the else branch of lines 380-385
CheckSchedule ==
    /\ pc = "check"
    /\ \E now \in ClockValues :
          /\ clock <= now
          /\ clock' = now
          /\ IF ShouldUpdate(now, next_update_time)
             THEN pc' = "wait_random_duration" /\ state' = "Attempting"
             ELSE pc' = "return" /\ state' = "Skipped"
    /\ UNCHANGED <<file, options, lastrun_timestamp, next_update_time,
                   expire_time, packages, idx, installed_packages, yum_ret,
                   exc, exit_code, fileAtStart, slept, verifyCalls,
                   verifyFailed, noExternal, rpmQueries, yumCalls, saved>>

\* main(), line 348: wait_random_duration()
WaitRandomDuration ==
    /\ pc = "wait_random_duration"
    /\ LET choices == WaitChoices(options.random_wait_minutes)
       IN  IF choices = {}
           THEN UNCHANGED <<clock, slept>>
           ELSE \E time_to_wait \in choices :
                   /\ slept' = TRUE
                   /\ clock' = WakeUp(clock, time_to_wait)
    /\ pc' = "verify"
    /\ UNCHANGED <<file, options, lastrun_timestamp, next_update_time,
                   expire_time, packages, idx, installed_packages, yum_ret,
                   exc, state, exit_code, fileAtStart, verifyCalls,
                   verifyFailed, noExternal, rpmQueries, yumCalls, saved>>

\* main(), lines 350-351: one iteration of 'for pkg in packages', or its end
VerifyRequirementAvailable(launches, rets) ==
    /\ pc = "verify"
    /\ IF idx > Len(packages)
       THEN /\ pc' = "query_installed"
            /\ UNCHANGED <<idx, exc, verifyCalls, verifyFailed, noExternal>>
       ELSE /\ verifyCalls' = Append(verifyCalls, packages[idx])
            /\ \E l \in launches, repoquery_ret \in rets,
                  repoquery_out \in RepoqueryOuts :
                  IF l = "oserror"
                  THEN /\ exc' = "OSError"
                       /\ pc' = "safe_main_except"
                       /\ UNCHANGED <<idx, verifyFailed, noExternal>>
                  ELSE IF VerifyRaises(repoquery_ret, repoquery_out)
                  THEN /\ exc' = "UpdateError"
                       /\ verifyFailed' = TRUE
                       /\ noExternal' = (repoquery_ret = 0 /\ "osg" \notin repoquery_out)
                       /\ pc' = "safe_main_except"
                       /\ UNCHANGED idx
                  ELSE /\ idx' = idx + 1
                       /\ pc' = "verify"
                       /\ noExternal' = (noExternal \/ "osg" \notin repoquery_out)
                       /\ UNCHANGED <<exc, verifyFailed>>
    /\ UNCHANGED <<clock, file, options, lastrun_timestamp, next_update_time,
                   expire_time, packages, installed_packages, yum_ret, state,
                   exit_code, fileAtStart, slept, rpmQueries, yumCalls, saved>>

\* main(), lines 352-353: extend the list, keep what rpm -q finds installed
\* (hosts: the sets of installed packages a host may have)
QueryInstalled(hosts) ==
    /\ pc = "query_installed"
    /\ packages' = packages \o UNCHECKED_PACKAGE_LIST
    /\ rpmQueries' = packages'
    /\ \E installed \in hosts :
          installed_packages' = InstalledOf(packages', installed)
    /\ pc' = "do_yum_update"
    /\ UNCHANGED <<clock, file, options, lastrun_timestamp, next_update_time,
                   expire_time, idx, yum_ret, exc, state, exit_code,
                   fileAtStart, slept, verifyCalls, verifyFailed, noExternal,
                   yumCalls, saved>>

\* main(), lines 354-356: do_yum_update() and what it raises
DoYumUpdate(launches, rets) ==
    /\ pc = "do_yum_update"
    /\ yumCalls' = Append(yumCalls, installed_packages)
    /\ \E l \in launches, ret \in rets :
          IF l = "oserror"
          THEN /\ exc' = "OSError"
               /\ pc' = "safe_main_except"
               /\ UNCHANGED <<yum_ret, state>>
          ELSE /\ yum_ret' = Some(ret)
               /\ IF YumRaises(ret)
                  THEN /\ exc' = "UpdateError"
                       /\ pc' = "handle_update_error"
                       /\ UNCHANGED state
                  ELSE /\ pc' = "save_timestamp"
                       /\ state' = "Succeeded"
                       /\ UNCHANGED exc
    /\ UNCHANGED <<clock, file, options, lastrun_timestamp, next_update_time,
                   expire_time, packages, idx, installed_packages, exit_code,
                   fileAtStart, slept, verifyCalls, verifyFailed, noExternal,
                   rpmQueries, saved>>

\* main(), line 357: save_timestamp(LASTRUN_TIMESTAMP_PATH, time.time())
SaveTimestamp ==
    /\ pc = "save_timestamp"
    /\ \E now \in ClockValues :
          /\ clock <= now
          /\ clock' = now
          /\ \E io \in WriteOutcomes :
                LET r == save_timestamp(file, now, io)
                IN  /\ file' = r[1]
                    /\ saved' = r[2]
                    /\ exc' = r[3]
                    /\ pc' = IF r[3] = "None" THEN "return"
                                             ELSE "safe_main_except"
    /\ UNCHANGED <<options, lastrun_timestamp, next_update_time, expire_time,
                   packages, idx, installed_packages, yum_ret, state,
                   exit_code, fileAtStart, slept, verifyCalls, verifyFailed,
                   noExternal, rpmQueries, yumCalls>>

\* main(), lines 358-379: the except clause
HandleUpdateError ==
    /\ pc = "handle_update_error"
    /\ \E now \in ClockValues :
          /\ clock <= now
          /\ clock' = now
          /\ IF Escalate(now, expire_time)
             THEN /\ pc' = "safe_main_except"
                  /\ UNCHANGED <<exc, state>>
             ELSE /\ pc' = "return"
                  /\ exc' = "None"
                  /\ state' = "TransientlyFailed"
    /\ UNCHANGED <<file, options, lastrun_timestamp, next_update_time,
                   expire_time, packages, idx, installed_packages, yum_ret,
                   exit_code, fileAtStart, slept, verifyCalls, verifyFailed,
                   noExternal, rpmQueries, yumCalls, saved>>

\* main() returns 0 (line 387) and safe_main() returns it
SafeMainReturn ==
    /\ pc = "return"
    /\ exit_code' = Some(EXIT_OK)
    /\ pc' = "done"
    /\ UNCHANGED <<clock, file, options, state, fileAtStart>>
    /\ UNCHANGED runVars

\* safe_main(), lines 405-428: an exception left main()
SafeMainExcept ==
    /\ pc = "safe_main_except"
    /\ exit_code' = Some(ExitCodeFor(exc))
    /\ state' = IF exc = "UpdateError" THEN "FatallyFailed" ELSE "InternalError"
    /\ pc' = "done"
    /\ UNCHANGED <<clock, file, options, fileAtStart>>
    /\ UNCHANGED runVars

Next ==
    \/ Tick
    \/ Start(OptionSpace)
    \/ GetLastrunTimestamp
    \/ GetTimes
    \/ CheckSchedule
    \/ WaitRandomDuration
    \/ VerifyRequirementAvailable(Launch, RepoqueryRets)
    \/ QueryInstalled(SUBSET TrackedPackages)
    \/ DoYumUpdate(Launch, YumRets)
    \/ SaveTimestamp
    \/ HandleUpdateError
    \/ SafeMainReturn
    \/ SafeMainExcept
    \/ Exit

Spec == Init /\ [][Next]_vars

\* Repeated invocations with one command line on a host with the four
\* packages installed (which are installed does not enter the schedule),
\* every update attempt failing with an UpdateError, the clock moving on
\* between invocations.
RunStep ==
    \/ Start({options})
    \/ GetLastrunTimestamp
    \/ GetTimes
    \/ CheckSchedule
    \/ WaitRandomDuration
    \/ VerifyRequirementAvailable({"started"}, RepoqueryRets)
    \/ QueryInstalled({TrackedPackages})
    \/ DoYumUpdate({"started"}, {1})
    \/ HandleUpdateError
    \/ SafeMainReturn
    \/ SafeMainExcept
    \/ Exit

LiveNext == Tick \/ RunStep

LiveSpec ==
    /\ InitWith(OptionSpace)
    /\ [][LiveNext]_vars
    /\ SF_vars(Tick)
    /\ WF_vars(RunStep)

----------------------------------------------------------------------------
\* Properties

\* the run's update attempt raised an UpdateError: in a repository
\* availability check, or in the package update invocation
UpdateAttemptFailed == verifyFailed \/ yum_ret \notin {None, Some(0)}

\* would a run reading file content f at instant t, with minimum age m,
\* attempt an update
EligibleAt(f, m, t) ==
    ShouldUpdate(t, get_times(get_lastrun_timestamp(f), m, 0, t, t)[1])

BeforeWindow == {"idle", "get_lastrun_timestamp", "get_times"}

\* C1 as stated: a finished run whose update attempt failed, in either
\* collaborator, while now < expire_time ended TransientlyFailed with exit
\* status 0.
C1_AnyFailureTransient ==
    (pc = "done" /\ UpdateAttemptFailed /\ clock < expire_time)
        => (state = "TransientlyFailed" /\ exit_code = Some(EXIT_OK))

\* C1 as amended: a finished run whose package update invocation failed
\* while now < expire_time ended TransientlyFailed with exit status 0; a run
\* whose repository availability check failed ended with exit status 1
\* whatever expire_time was.
C1_YumFailureTransient ==
    /\ (pc = "done" /\ yum_ret \notin {None, Some(0)} /\ clock < expire_time)
          => (state = "TransientlyFailed" /\ exit_code = Some(EXIT_OK))
    /\ (pc = "done" /\ verifyFailed)
          => (state = "FatallyFailed" /\ exit_code = Some(EXIT_UPDATE_ERROR))

C1_Witness ==
    /\ pc = "done"
    /\ yum_ret = Some(1)
    /\ clock < expire_time
    /\ state = "TransientlyFailed"

\* C2: a finished run whose update attempt failed with now >= expire_time
\* ended FatallyFailed with exit status 1, which is neither the success
\* status nor the internal-error status.
C2_ExpiredFailureFatal ==
    (pc = "done" /\ UpdateAttemptFailed /\ clock >= expire_time)
        => /\ state = "FatallyFailed"
           /\ exit_code = Some(EXIT_UPDATE_ERROR)
           /\ exit_code \notin {Some(EXIT_OK), Some(EXIT_UNHANDLED)}

C2_Witness ==
    /\ pc = "done"
    /\ yum_ret = Some(1)
    /\ lastrun_timestamp # None
    /\ options.maximum_age_hours > 0
    /\ clock = expire_time
    /\ state = "FatallyFailed"

\* C3: a run that finds now < next_update_time ends Skipped with exit status
\* 0, and a Skipped run has not slept, has called no collaborator and has
\* left the timestamp file as it found it.
C3_SkippedDoesNothing ==
    /\ (pc = "done" /\ clock < next_update_time)
          => (state = "Skipped" /\ exit_code = Some(EXIT_OK))
    /\ state = "Skipped"
          => /\ ~slept
             /\ verifyCalls = <<>>
             /\ rpmQueries = <<>>
             /\ yumCalls = <<>>
             /\ saved = None
             /\ file = fileAtStart

C3_Witness ==
    /\ pc = "done"
    /\ state = "Skipped"
    /\ clock < next_update_time
    /\ options.random_wait_minutes > 0

\* C4: a run that found no usable timestamp (file missing, unreadable or not
\* a number) is never Skipped and never TransientlyFailed, whatever the two
\* ages: a failure of its attempt is fatal.
C4_NoHistoryNeverTransient ==
    (fileAtStart.kind # "number" /\ pc \notin BeforeWindow \cup {"check"})
        => /\ state \notin {"Skipped", "TransientlyFailed"}
           /\ (pc = "done" /\ UpdateAttemptFailed)
                 => (state = "FatallyFailed"
                       /\ exit_code = Some(EXIT_UPDATE_ERROR))

C4_Witness ==
    /\ pc = "done"
    /\ fileAtStart.kind = "garbage"
    /\ options.minimum_age_hours > 0
    /\ options.maximum_age_hours > 0
    /\ yum_ret = Some(1)
    /\ state = "FatallyFailed"

\* C5: the package update is invoked only after every requirement of
\* PACKAGE_LIST passed the repository availability check; once a repoquery
\* names no external repo, yum is not called in that run, the timestamp file
\* stays as it was and the run ends FatallyFailed with exit status 1.
C5_UnavailableAbortsAttempt ==
    /\ yumCalls # <<>> => (verifyCalls = PACKAGE_LIST /\ ~verifyFailed)
    /\ noExternal
          => /\ yumCalls = <<>>
             /\ file = fileAtStart
             /\ pc = "done" => (state = "FatallyFailed"
                                  /\ exit_code = Some(EXIT_UPDATE_ERROR))

C5_Witness ==
    /\ pc = "done"
    /\ noExternal
    /\ Len(verifyCalls) = 2
    /\ clock < expire_time
    /\ state = "FatallyFailed"

\* C6: within a run the timestamp file differs from what the run found only
\* after both repository checks passed and yum returned 0; a run that is
\* Skipped, TransientlyFailed or FatallyFailed has left the file as it was.
C6_WrittenOnlyOnSuccess ==
    /\ file # fileAtStart
          => (yum_ret = Some(0) /\ verifyCalls = PACKAGE_LIST /\ ~verifyFailed)
    /\ state \in {"Skipped", "TransientlyFailed", "FatallyFailed"}
          => file = fileAtStart

C6_Witness ==
    /\ pc = "done"
    /\ saved = Some(TRUE)
    /\ file # fileAtStart
    /\ fileAtStart.kind = "number"

\* C7 as stated: when the update succeeded and the write of the timestamp
\* failed, the run ended Succeeded with exit status 0 and the file holds what
\* it held before.
C7_FailedSaveKeepsContent ==
    (pc = "done" /\ yum_ret = Some(0) /\ saved # Some(TRUE))
        => /\ state = "Succeeded"
           /\ exit_code = Some(EXIT_OK)
           /\ file = fileAtStart

\* C7 as amended: a run whose update succeeded ends Succeeded with exit
\* status 0 whether or not the write worked, save_timestamp() having returned
\* without raising; after a failed write the file holds what it held before
\* or is empty, and in both cases any later run that would be eligible had
\* the write worked is eligible.
C7_FailedSaveIsSoft ==
    /\ (pc = "done" /\ yum_ret = Some(0))
          => /\ state = "Succeeded"
             /\ exit_code = Some(EXIT_OK)
             /\ saved # None
    /\ (yum_ret = Some(0) /\ pc \in {"return", "done"} /\ saved # Some(TRUE))
          => /\ file \in {fileAtStart, Empty}
             /\ \A m \in Ages, t \in ClockValues :
                   (t >= clock
                      /\ EligibleAt(Number(WholeSeconds(clock)), m, t))
                       => EligibleAt(file, m, t)

C7_Witness ==
    /\ pc = "done"
    /\ saved = Some(FALSE)
    /\ fileAtStart.kind = "number"
    /\ file = Empty
    /\ state = "Succeeded"

\* C8 as stated: for every timestamp read from the file, 0 included, with
\* last_run <= now, get_times() returned last_run + minimum_age and
\* last_run + maximum_age.
C8_WindowIsLinear ==
    (pc \notin BeforeWindow /\ lastrun_timestamp # None
       /\ Val(lastrun_timestamp) <= clock)
        => /\ next_update_time = Val(lastrun_timestamp)
                 + options.minimum_age_hours * HourTicks
           /\ expire_time = Val(lastrun_timestamp)
                 + options.maximum_age_hours * HourTicks

\* C9: with one command line, every update attempt failing and the clock
\* moving on, runs keep ending FatallyFailed, and from some point on every
\* run that ends ends FatallyFailed.
C9_EventuallyEscalated ==
    /\ []<>(pc = "done" /\ state = "FatallyFailed")
    /\ <>[](pc = "done" => state = "FatallyFailed")

C9_Witness ==
    /\ pc = "done"
    /\ fileAtStart.kind = "number"
    /\ fileAtStart.secs > 0
    /\ options.maximum_age_hours > 0
    /\ yum_ret = Some(1)
    /\ state = "FatallyFailed"

\* C10 as stated: every package list handed to yum is a non-empty part of
\* the four tracked packages.
C10_YumNamesTrackedPackage ==
    \A i \in 1..Len(yumCalls) :
        /\ yumCalls[i] # <<>>
        /\ SeqToSet(yumCalls[i]) \subseteq TrackedPackages

====
